---- MODULE Spec2Model ----
(***************************************************************************)
(* cymel.initmaya: initialization of Maya from a standalone python.        *)
(*                                                                         *)
(* The module's globals, os.environ, sys.path, the atexit table and the    *)
(* host (Maya) are the state.  Each public entry point is one action; the  *)
(* python functions are operators from a state record to a state record,   *)
(* with the field exc carrying a raised exception up the call chain.       *)
(*                                                                         *)
(* Representation                                                          *)
(*   - a python str that the code takes apart (the preference directory,   *)
(*     the version strings) is a sequence of one-character strings;        *)
(*   - a file-system path is a sequence of its segments, '' is << >>;      *)
(*   - os.environ is a function whose DOMAIN is the set of variables set;  *)
(*   - None is << >> for MAYA_VERSION and MAYA_PRODUCT_VERSION (neither is *)
(*     ever assigned an empty tuple or an empty string by the code);       *)
(*   - `/` on ints is floor division: the branch that uses it runs on      *)
(*     hosts older than 2019.1, which embed python 2.                      *)
(***************************************************************************)
EXTENDS Integers, Sequences, FiniteSets

VARIABLES
    host,                  \* the Maya installation and the files around it (fixed for the process)
    loaded,                \* cymel.initmaya has been imported
    exited,                \* the interpreter has run its atexit hooks
    exitError,             \* an exception left an atexit hook
    mayaReady,             \* maya.cmds is populated (cmds.about exists)
    sessions,              \* maya.standalone.initialize() calls that returned
    environ,               \* os.environ
    sysPath,               \* sys.path
    atexitHooks,           \* hooks given to atexit.register, in order
    _NOT_INITIALIZED,
    MAYA_PRODUCT_VERSION,
    MAYA_VERSION,
    MAYA_VERSION_STR,
    IS_UIMODE,
    warning,
    OPTIONAL_MUTATOR_DICT, \* pyutils.immutable.OPTIONAL_MUTATOR_DICT
    log,                   \* the steps executed so far, in order
    calls,                 \* entry-point calls made so far
    lastCall               \* the last entry-point call and how it ended

vars == <<host, loaded, exited, exitError, mayaReady, sessions, environ, sysPath,
          atexitHooks, _NOT_INITIALIZED, MAYA_PRODUCT_VERSION, MAYA_VERSION,
          MAYA_VERSION_STR, IS_UIMODE, warning, OPTIONAL_MUTATOR_DICT, log,
          calls, lastCall>>

\* ------------------------------------------------------------------ bounds
MaxCalls == 4
MaxPath == 2
MaxUpdate == 85
MaxMinor == 3

None == << >>

\* ------------------------------------------------------- python primitives
Digits == <<"0", "1", "2", "3", "4", "5", "6", "7", "8", "9">>

IsDigit(c) == \E i \in 1..Len(Digits) : Digits[i] = c

DigitVal(c) == (CHOOSE i \in 1..Len(Digits) : Digits[i] = c) - 1

\* int(x) of a string of decimal digits
RECURSIVE PyInt(_)
PyInt(x) ==
    IF Len(x) = 0 THEN 0
    ELSE PyInt(SubSeq(x, 1, Len(x) - 1)) * 10 + DigitVal(x[Len(x)])

\* str(n) of a non-negative int
RECURSIVE PyStr(_)
PyStr(n) ==
    IF n < 10 THEN <<Digits[n + 1]>>
    ELSE PyStr(n \div 10) \o <<Digits[(n % 10) + 1]>>

\* x.split('.')
RECURSIVE PySplit(_)
PySplit(x) ==
    LET dots == {i \in 1..Len(x) : x[i] = "."}
    IN  IF dots = {} THEN <<x>>
        ELSE LET i == CHOOSE j \in dots : \A k \in dots : j <= k
             IN  <<SubSeq(x, 1, i - 1)>> \o PySplit(SubSeq(x, i + 1, Len(x)))

\* '.'.join(parts)
RECURSIVE PyJoin(_)
PyJoin(parts) ==
    IF Len(parts) = 0 THEN << >>
    ELSE IF Len(parts) = 1 THEN parts[1]
    ELSE parts[1] \o <<".">> \o PyJoin(Tail(parts))

\* t[i] with python's indexing: negative indices count from the end, and an
\* index outside -len(t)..len(t)-1 is an IndexError
PyIndexOk(t, i) == -Len(t) <= i /\ i < Len(t)

PyIndex(t, i) == IF i >= 0 THEN t[i + 1] ELSE t[Len(t) + i + 1]

\* the end of the run of digits of x that starts at i
RECURSIVE DigitRunEnd(_, _)
DigitRunEnd(x, i) ==
    IF i + 1 <= Len(x) /\ IsDigit(x[i + 1]) THEN DigitRunEnd(x, i + 1) ELSE i

\* re.search(r'.+/(\d+(?:\.\d+)?)', x): group(1), or None when nothing matches.
\* `.+` is greedy, so the match uses the last '/' that has a character before
\* it and a digit after it.
ReSearchVersion(x) ==
    LET cands == {i \in 2..(Len(x) - 1) : x[i] = "/" /\ IsDigit(x[i + 1])}
    IN  IF cands = {} THEN None
        ELSE LET i == CHOOSE j \in cands : \A k \in cands : k <= j
                 e == DigitRunEnd(x, i + 1)
                 f == IF e + 2 <= Len(x) /\ x[e + 1] = "." /\ IsDigit(x[e + 2])
                      THEN DigitRunEnd(x, e + 2) ELSE e
             IN  SubSeq(x, i + 1, f)

\* float(x) >= 2018. and float(x) == 2017. for x matching \d+(\.\d+)?
FloatGE2018(x) == PyInt(PySplit(x)[1]) >= 2018

FloatEQ2017(x) ==
    LET p == PySplit(x)
    IN  /\ PyInt(p[1]) = 2017
        /\ Len(p) > 1 => \A i \in 1..Len(p[2]) : p[2][i] = "0"

\* os.path.normpath(os.path.join(os.path.dirname(f), '../../../..'))
RECURSIVE UpDirs(_, _)
UpDirs(p, n) ==
    IF n = 0 \/ Len(p) = 0 THEN p ELSE UpDirs(SubSeq(p, 1, Len(p) - 1), n - 1)

\* ------------------------------------------------------ the state record
\* The program state a python function works on: exc is the exception being
\* raised ("none" when there is none), ret the last return value of initMaya,
\* inp the outcome the host gives this call of maya.standalone.initialize().
Cur(inp) ==
    [mayaReady |-> mayaReady, sessions |-> sessions, environ |-> environ,
     sysPath |-> sysPath, atexitHooks |-> atexitHooks,
     _NOT_INITIALIZED |-> _NOT_INITIALIZED,
     MAYA_PRODUCT_VERSION |-> MAYA_PRODUCT_VERSION, MAYA_VERSION |-> MAYA_VERSION,
     MAYA_VERSION_STR |-> MAYA_VERSION_STR, IS_UIMODE |-> IS_UIMODE,
     warning |-> warning, OPTIONAL_MUTATOR_DICT |-> OPTIONAL_MUTATOR_DICT,
     log |-> log, exc |-> "none", ret |-> FALSE, inp |-> inp]

Emit(s, name, arg) == [s EXCEPT !.log = Append(@, [ev |-> name, arg |-> arg])]

Raise(s, e) == [s EXCEPT !.exc = e]

\* statement sequencing: F runs unless an exception is on its way up
Then(s, F(_)) == IF s.exc = "none" THEN F(s) ELSE s

SetItem(d, k, v) == [x \in DOMAIN d \cup {k} |-> IF x = k THEN v ELSE d[x]]

BoolStr(b) == IF b THEN "True" ELSE "False"

\* --------------------------------------------------------- version parsing
\* 2018nnpp: 2018.n.p
Version2018(api) ==
    <<api \div 10000,
      (api - (api \div 10000) * 10000) \div 100,
      api - (api \div 100) * 100>>

\* Version2017 with update 1's patch number off by one
Version2017_patchOff(api) ==
    LET v == api - 201700
    IN  IF v < 1 THEN <<2017, 0, 0>>
        ELSE IF v < 20 THEN <<2017, 1, v>>
        ELSE LET w == v - 20
                 x == w \div 20
             IN  <<2017, x + 2, w - x * 20>>

\* 2017xx: 2017.?
Version2017(api) ==
    LET v == api - 201700
    IN  IF v < 1 THEN <<2017, 0, 0>>
        ELSE IF v < 20 THEN <<2017, 1, v - 1>>
        ELSE LET w == v - 20
                 x == w \div 20
             IN  <<2017, x + 2, w - x * 20>>

\* tuple([int(x) for x in MAYA_PRODUCT_VERSION.split('.')]) padded with zeros
VersionOld(product) ==
    LET p == PySplit(product)
        v == [i \in 1..Len(p) |-> PyInt(p[i])]
    IN  v \o [i \in 1..(IF 3 - Len(v) > 0 THEN 3 - Len(v) ELSE 0) |-> 0]

\* the except branch of the version probe: [exc, v]
FallbackVersion(product) ==
    IF FloatGE2018(product) THEN
        IF host.apiOk THEN [exc |-> "none", v |-> Version2018(host.api)]
        ELSE [exc |-> "about(api)", v |-> None]
    ELSE IF FloatEQ2017(product) THEN
        IF host.apiOk THEN [exc |-> "none", v |-> Version2017(host.api)]
        ELSE [exc |-> "about(api)", v |-> None]
    ELSE [exc |-> "none", v |-> VersionOld(product)]

\* StrIndex with `if` for `while`: one zero component dropped at most
StrIndex_oneStep(ver, v) ==
    IF ~PyIndexOk(ver, v) THEN -4
    ELSE IF PyIndex(ver, v) = 0 THEN v - 1
    ELSE v

\* v = 2; while not MAYA_VERSION[v]: v -= 1.  The index the loop ends with;
\* -4 stands for the IndexError an all-zero tuple ends in.
RECURSIVE StrIndex(_, _)
StrIndex(ver, v) ==
    IF ~PyIndexOk(ver, v) THEN -4
    ELSE IF PyIndex(ver, v) = 0 THEN StrIndex(ver, v - 1)
    ELSE v

\* '.'.join([str(v) for v in MAYA_VERSION[:v + 1]])
VersionStr(ver, v) == PyJoin([i \in 1..(v + 1) |-> PyStr(ver[i])])

\* ------------------------------------------------------------- the host
\* os.path.isdir / os.path.isfile
_os_path_isdir(path) == path \in host.dirs

HasUserSetupPy(dir) == dir \in host.pyDirs

\* _execfile(userSetup.py of dir), run by cymel or by the host: a broken script
\* raises, a working one may extend sys.path
ExecUserSetupPy(s, dir, by) ==
    IF dir \in host.pyRaises
    THEN Raise(Emit(s, "userSetup.py", <<dir, by>>), "userSetup.py")
    ELSE [Emit(s, "userSetup.py", <<dir, by>>)
              EXCEPT !.sysPath = @ \o host.pyAppends[dir]]

\* try: _execfile(file) / except: pass
TryUserSetupPy(s, dir, by) == [ExecUserSetupPy(s, dir, by) EXCEPT !.exc = "none"]

\* for path in paths[i:]: if isfile(userSetup.py): run it, errors passed over
RECURSIVE ForEachUserSetupPy(_, _, _, _)
ForEachUserSetupPy(s, paths, i, by) ==
    IF i > Len(paths) THEN s
    ELSE ForEachUserSetupPy(
             IF HasUserSetupPy(paths[i]) THEN TryUserSetupPy(s, paths[i], by) ELSE s,
             paths, i + 1, by)

\* up to 2020 the host itself runs the userSetup.py of the sys.path it finds
HostUserSetupPys(s) ==
    IF host.version[1] <= 2020 THEN ForEachUserSetupPy(s, s.sysPath, 1, "host") ELSE s

\* maya.standalone.initialize(name='cymel').  When it returns maya.cmds is
\* populated.
standalone_initialize(s) ==
    IF ~s.inp THEN Raise(Emit(s, "standalone.initialize.raise", << >>), "standalone")
    ELSE Emit(HostUserSetupPys([s EXCEPT !.mayaReady = TRUE, !.sessions = @ + 1]),
              "standalone.initialize.return", << >>)

\* maya.standalone.uninitialize()
standalone_uninitialize(s) ==
    IF host.uninitializeRaises THEN Raise(s, "uninitialize")
    ELSE [s EXCEPT !.mayaReady = FALSE]

\* pyutils.insertEnvPath(path, name, noCheck=True, noUpdate=True): the path is
\* put in front of the variable's list unless the list holds it already
_insertEnvPath(s, path, name) ==
    LET cur == IF name \in DOMAIN s.environ THEN s.environ[name] ELSE << >>
    IN  IF \E i \in 1..Len(cur) : cur[i] = path THEN s
        ELSE [s EXCEPT !.environ = SetItem(@, name, <<path>> \o cur)]

\* ------------------------------------------------------------ initmaya.py
initCymelPluginsPath(s) ==
    _insertEnvPath(Emit(s, "initCymelPluginsPath", << >>),
                   host.cymelDir \o <<"plugins">>, "MAYA_PLUG_IN_PATH")

isMayaInitialized(s) == s.mayaReady

\* _initMayaAppDir testing `path is not None` for `path`: '' is kept
_initMayaAppDir_keepsEmpty(s) ==
    IF "MAYA_APP_DIR" \in DOMAIN s.environ
    THEN Emit(s, "_initMayaAppDir", << >>)
    ELSE [Emit(s, "_initMayaAppDir", << >>) EXCEPT !.environ =
              SetItem(@, "MAYA_APP_DIR", host.userDocPath \o <<"maya">>)]

_initMayaAppDir(s) ==
    IF "MAYA_APP_DIR" \in DOMAIN s.environ /\ s.environ["MAYA_APP_DIR"] # << >>
    THEN Emit(s, "_initMayaAppDir", << >>)
    ELSE [Emit(s, "_initMayaAppDir", << >>) EXCEPT !.environ =
              SetItem(@, "MAYA_APP_DIR", host.userDocPath \o <<"maya">>)]

_initMayaLocation(s) ==
    IF /\ "MAYA_LOCATION" \in DOMAIN s.environ
       /\ s.environ["MAYA_LOCATION"] # << >>
       /\ _os_path_isdir(s.environ["MAYA_LOCATION"] \o <<"scripts", "AETemplates">>)
    THEN Emit(s, "_initMayaLocation", << >>)
    ELSE [Emit(s, "_initMayaLocation", << >>) EXCEPT !.environ =
              SetItem(@, "MAYA_LOCATION",
                      UpDirs(SubSeq(host.mayaFile, 1, Len(host.mayaFile) - 1), 4))]

\* _uninitialize without its try
_uninitialize_bare(s) == standalone_uninitialize(s)

\* the hook given to atexit: try: uninitialize() / except: pass
_uninitialize(s) == [standalone_uninitialize(s) EXCEPT !.exc = "none"]

\* _call_userSetup_pys over sys.path itself, not a copy of it
RECURSIVE ForEachLiveUserSetupPy(_, _)
ForEachLiveUserSetupPy(s, i) ==
    IF i > Len(s.sysPath) THEN s
    ELSE ForEachLiveUserSetupPy(
             IF HasUserSetupPy(s.sysPath[i]) THEN TryUserSetupPy(s, s.sysPath[i], "cymel")
             ELSE s,
             i + 1)

_call_userSetup_pys_live(s) ==
    ForEachLiveUserSetupPy(Emit(s, "_call_userSetup_pys", s.sysPath), 1)

\* for path in list(sys.path): ...
_call_userSetup_pys(s) ==
    ForEachUserSetupPy(Emit(s, "_call_userSetup_pys", s.sysPath), s.sysPath, 1, "cymel")

\* uninitialize = getattr(_maya_standalone, 'uninitialize', None); if uninitialize: ...
RegisterUninitialize(s) ==
    IF host.hasUninitialize
    THEN [Emit(s, "atexit.register", << >>)
              EXCEPT !.atexitHooks = Append(@, "_uninitialize")]
    ELSE s

\* v = int(cmds.about(mjv=True)), an error passed over; if v >= 2021: ...
CallUserSetupPysFrom2021(s) ==
    IF host.opts /\ host.version[1] >= 2021 THEN _call_userSetup_pys(s) ELSE s

_initMayaStandalone(s) ==
    Then(Then(standalone_initialize(Emit(s, "_initMayaStandalone", << >>)),
              RegisterUninitialize),
         CallUserSetupPysFrom2021)

\* try: (mjv, mnv, pv) / except: the fallback.  [exc, v]
ProbeVersion(product) ==
    IF host.opts THEN [exc |-> "none", v |-> host.version]
    ELSE FallbackVersion(product)

\* MAYA_VERSION_STR, IS_UIMODE and warning, v being the index the loop ended with
SetVersionStr(s, v) ==
    IF v = -4 THEN Raise(s, "IndexError")
    ELSE [s EXCEPT !.MAYA_VERSION_STR = VersionStr(s.MAYA_VERSION, v),
                   !.IS_UIMODE = ~host.batch,
                   !.warning = "MGlobal.displayWarning"]

\* MAYA_VERSION = v and what follows
SetVersion(s, probe) ==
    IF probe.exc # "none" THEN Raise(s, probe.exc)
    ELSE SetVersionStr([s EXCEPT !.MAYA_VERSION = probe.v], StrIndex(probe.v, 2))

\* MAYA_PRODUCT_VERSION = re.search(...).group(1) and what follows
SetProductVersion(s, product) ==
    IF product = None THEN Raise(s, "internalVar")
    ELSE SetVersion([s EXCEPT !.MAYA_PRODUCT_VERSION = product], ProbeVersion(product))

\* _initCymelConstants dropping the constants it finds set instead of
\* computing them again
_initCymelConstants_drops(s) ==
    IF ~s.mayaReady THEN Raise(s, "cmds.about")
    ELSE IF ~host.updOk THEN Raise(s, "internalVar")
    ELSE IF s.MAYA_VERSION # None
    THEN [s EXCEPT !.MAYA_VERSION = None, !.MAYA_VERSION_STR = << >>]
    ELSE SetProductVersion(s, ReSearchVersion(host.upd))

_initCymelConstants(s) ==
    IF ~s.mayaReady THEN Raise(s, "cmds.about")
    ELSE IF ~host.updOk THEN Raise(s, "internalVar")
    ELSE SetProductVersion(s, ReSearchVersion(host.upd))

\* initMaya reading isMayaInitialized() after the initialization
initMaya_retAfter(s) ==
    Then(Then(IF ~isMayaInitialized(s)
              THEN Then(Then(_initMayaAppDir(Emit(s, "initMaya", << >>)),
                             _initMayaLocation),
                        _initMayaStandalone)
              ELSE Emit(s, "initMaya", << >>),
              _initCymelConstants),
         LAMBDA x : [Emit(x, "initMaya.return", <<BoolStr(~isMayaInitialized(x))>>)
                        EXCEPT !.ret = ~isMayaInitialized(x)])

initMaya(s) ==
    Then(Then(IF ~isMayaInitialized(s)
              THEN Then(Then(_initMayaAppDir(Emit(s, "initMaya", << >>)),
                             _initMayaLocation),
                        _initMayaStandalone)
              ELSE Emit(s, "initMaya", << >>),
              _initCymelConstants),
         LAMBDA x : [Emit(x, "initMaya.return", <<BoolStr(~isMayaInitialized(s))>>)
                        EXCEPT !.ret = ~isMayaInitialized(s)])

callUserSetupMel(s) ==
    IF ~host.melExists THEN s
    ELSE IF host.melRaises THEN Raise(Emit(s, "source userSetup", << >>), "mel")
    ELSE Emit(s, "source userSetup", << >>)

\* setApiNames(name, attrs, api1ignores)
setApiNames(d, name, attrs, api1ignores) ==
    SetItem(SetItem(d, <<"api2", name>>, attrs),
            <<"api1", name>>, SelectSeq(attrs, LAMBDA x : x \notin api1ignores))

initApiImmutables(s) ==
    LET d1 == setApiNames(s.OPTIONAL_MUTATOR_DICT, "MVector", <<"normalize">>, {})
        d2 == setApiNames(d1, "MPoint",
                  <<"cartesianize", "rationalize", "homogenize">>, {})
        d3 == setApiNames(d2, "MEulerRotation",
                  <<"boundIt", "incrementalRotateBy", "invertIt", "reorderIt",
                    "setToAlternateSolution", "setToClosestCut",
                    "setToClosestSolution", "setValue">>, {})
        d4 == setApiNames(d3, "MQuaternion",
                  <<"conjugateIt", "invertIt", "negateIt", "normalizeIt",
                    "setToXAxis", "setToYAxis", "setToZAxis", "setValue">>,
                  {"setValue"})
        d5 == setApiNames(d4, "MMatrix",
                  <<"setElement", "setToIdentity", "setToProduct">>, {"setElement"})
    IN  [Emit(s, "initApiImmutables", << >>) EXCEPT !.OPTIONAL_MUTATOR_DICT = d5]

\* `initMaya(); callUserSetupMel()` for `initMaya() and callUserSetupMel()`
InitMayaAndUserSetupMel_always(s) == Then(initMaya(s), callUserSetupMel)

\* initMaya() and callUserSetupMel()
InitMayaAndUserSetupMel(s) ==
    Then(initMaya(s), LAMBDA x : IF x.ret THEN callUserSetupMel(x) ELSE x)

\* initialize without its _NOT_INITIALIZED test
initialize_unguarded(s) ==
    Then(Then(Then(initCymelPluginsPath(s), InitMayaAndUserSetupMel),
              initApiImmutables),
         LAMBDA x : [x EXCEPT !._NOT_INITIALIZED = FALSE])

initialize(s) ==
    IF s._NOT_INITIALIZED
    THEN Then(Then(Then(initCymelPluginsPath(s), InitMayaAndUserSetupMel),
                   initApiImmutables),
              LAMBDA x : [x EXCEPT !._NOT_INITIALIZED = FALSE])
    ELSE s

\* the module's top-level code, run by the import
ModuleDefaults(s) ==
    [Emit(s, "import cymel.initmaya", << >>)
         EXCEPT !._NOT_INITIALIZED = TRUE,
                !.MAYA_VERSION = None,
                !.MAYA_VERSION_STR = << >>,
                !.MAYA_PRODUCT_VERSION = None,
                !.IS_UIMODE = FALSE]

ModuleBody(s) ==
    IF isMayaInitialized(s) THEN _initCymelConstants(ModuleDefaults(s))
    ELSE ModuleDefaults(s)

\* python's exit: the atexit hooks run, last registered first
RECURSIVE RunExitHooks(_, _)
RunExitHooks(s, i) ==
    IF i = 0 \/ s.exc # "none" THEN s
    ELSE RunExitHooks(_uninitialize(s), i - 1)

\* ---------------------------------------------------------------- actions
\* the call op ended in state s
Commit(op, s, ret) ==
    /\ mayaReady' = s.mayaReady
    /\ sessions' = s.sessions
    /\ environ' = s.environ
    /\ sysPath' = s.sysPath
    /\ atexitHooks' = s.atexitHooks
    /\ _NOT_INITIALIZED' = s._NOT_INITIALIZED
    /\ MAYA_PRODUCT_VERSION' = s.MAYA_PRODUCT_VERSION
    /\ MAYA_VERSION' = s.MAYA_VERSION
    /\ MAYA_VERSION_STR' = s.MAYA_VERSION_STR
    /\ IS_UIMODE' = s.IS_UIMODE
    /\ warning' = s.warning
    /\ OPTIONAL_MUTATOR_DICT' = s.OPTIONAL_MUTATOR_DICT
    /\ log' = s.log
    /\ lastCall' = [op |-> op, exc |-> s.exc,
                    ret |-> IF s.exc = "none" THEN ret ELSE "None",
                    wasReady |-> mayaReady, wasNotInit |-> _NOT_INITIALIZED]

\* An import that raises leaves no module behind: its globals are dropped.
ImportEnded(s) ==
    /\ Commit("import",
              IF s.exc = "none" THEN s
              ELSE [Cur(TRUE) EXCEPT !.log = s.log, !.exc = s.exc],
              "None")
    /\ loaded' = (s.exc = "none")

\* import cymel.initmaya
Import ==
    /\ ~loaded /\ ~exited /\ calls < MaxCalls
    /\ ImportEnded(ModuleBody(Cur(TRUE)))
    /\ calls' = calls + 1
    /\ UNCHANGED <<host, exited, exitError>>

\* initialize()
Initialize ==
    /\ loaded /\ ~exited /\ calls < MaxCalls
    /\ \E standaloneOk \in BOOLEAN :
          Commit("initialize", initialize(Cur(standaloneOk)), "None")
    /\ calls' = calls + 1
    /\ UNCHANGED <<host, loaded, exited, exitError>>

InitMayaEnded(s) == Commit("initMaya", s, BoolStr(s.ret))

\* initMaya()
InitMaya ==
    /\ loaded /\ ~exited /\ calls < MaxCalls
    /\ \E standaloneOk \in BOOLEAN : InitMayaEnded(initMaya(Cur(standaloneOk)))
    /\ calls' = calls + 1
    /\ UNCHANGED <<host, loaded, exited, exitError>>

ExitEnded(s) ==
    /\ Commit("exit", [s EXCEPT !.exc = "none"], "None")
    /\ exitError' = (s.exc # "none")

\* the interpreter exits
AtExit ==
    /\ ~exited
    /\ ExitEnded(RunExitHooks(Cur(TRUE), Len(atexitHooks)))
    /\ exited' = TRUE
    /\ UNCHANGED <<host, loaded, calls>>

Next == Import \/ Initialize \/ InitMaya \/ AtExit

\* ----------------------------------------------------------- initial states
Dirs == {"a", "b", "c"}

Paths(n) == UNION {[1..k -> Dirs] : k \in 0..n}

\* cmds.internalVar(upd=True) of a product version
UpdPath(product) ==
    <<"/", "7", "h", "/", "m", "a", "y", "a", "/">> \o product
        \o <<"/", "p", "r", "e", "f", "s", "/">>

Profile(version, product, opts, api) ==
    [version |-> version, opts |-> opts, api |-> api, apiOk |-> TRUE,
     upd |-> UpdPath(product), updOk |-> TRUE]

\* the minor and patch numbers tried: the small ones and two of two digits
Minors(n) == IF n = 0 THEN {0} ELSE 0..n \cup {10, 99}

\* hosts with the major/minor/patch options (2019.1 and later)
NewProfiles(years, n) ==
    {Profile(<<y, a, b>>, PyStr(y), TRUE, y * 10000 + a * 100 + b) :
        y \in years, a \in Minors(n), b \in Minors(n)}

\* 2018 and 2019.0: the api number is YYYYnnpp
ApiProfiles(years, n) ==
    {Profile(<<y, a, b>>, PyStr(y), FALSE, y * 10000 + a * 100 + b) :
        y \in years, a \in Minors(n), b \in Minors(n)}

\* 2017 and its updates: the api number is 2017xx
Profiles2017(ds) ==
    {Profile(<<2017, 0, 0>>, PyStr(2017), FALSE, 201700 + d) : d \in ds}

\* before 2017: the product version alone
OldProfiles ==
    {Profile(<<2016, 0, 0>>, PyStr(2016), FALSE, 201600),
     Profile(<<2016, 5, 0>>, PyStr(2016) \o <<".", "5">>, FALSE, 201650),
     Profile(<<2015, 0, 0>>, PyStr(2015), FALSE, 201500)}

\* hosts whose probes fail: no version in the preference directory, no
\* internalVar, no api number, and a 2022 whose major version cannot be read
BrokenProfiles ==
    {[Profile(<<2020, 0, 0>>, PyStr(2020), TRUE, 20200000)
          EXCEPT !.upd = <<"/", "h", "/", "p", "r", "e", "f", "s", "/">>],
     [Profile(<<2020, 0, 0>>, PyStr(2020), TRUE, 20200000) EXCEPT !.updOk = FALSE],
     [Profile(<<2018, 4, 0>>, PyStr(2018), FALSE, 20180400) EXCEPT !.apiOk = FALSE],
     Profile(<<2022, 1, 0>>, PyStr(2022), FALSE, 20220100)}

PyConfigs ==
    {[pyDirs |-> {}, pyRaises |-> {}, pyAppends |-> [d \in Dirs |-> << >>]],
     [pyDirs |-> {"a", "c"}, pyRaises |-> {},
      pyAppends |-> [d \in Dirs |-> IF d = "a" THEN <<"c">> ELSE << >>]],
     [pyDirs |-> Dirs, pyRaises |-> {"b"},
      pyAppends |-> [d \in Dirs |-> IF d = "a" THEN <<"c">> ELSE << >>]]}

MayaFiles ==
    {<<"opt", "maya", "lib", "python", "site-packages", "maya", "__init__.py">>,
     <<"usr", "autodesk", "lib", "python", "site-packages", "maya", "__init__.py">>}

HostOf(profile, batch, uninit, mel, py, mayaFile) ==
    [version |-> profile.version, opts |-> profile.opts, api |-> profile.api,
     apiOk |-> profile.apiOk, upd |-> profile.upd, updOk |-> profile.updOk,
     batch |-> batch,
     hasUninitialize |-> uninit # "none", uninitializeRaises |-> uninit = "raises",
     melExists |-> mel # "none", melRaises |-> mel = "raises",
     pyDirs |-> py.pyDirs, pyRaises |-> py.pyRaises, pyAppends |-> py.pyAppends,
     dirs |-> {<<"opt", "maya", "scripts", "AETemplates">>},
     mayaFile |-> mayaFile,
     userDocPath |-> <<"home", "Documents">>,
     cymelDir |-> <<"site", "cymel">>]

\* os.environ with MAYA_APP_DIR and MAYA_LOCATION set (<<"unset">>: not set)
EnvOf(app, loc) ==
    [k \in {x \in {"MAYA_APP_DIR"} : app # <<"unset">>}
           \cup {x \in {"MAYA_LOCATION"} : loc # <<"unset">>}
        |-> IF k = "MAYA_APP_DIR" THEN app ELSE loc]

AppDirs == {<<"unset">>, << >>, <<"home", "maya">>}

Locations == {<<"unset">>, << >>, <<"opt", "maya">>, <<"opt", "mayapy">>}

Flavours == {"none", "ok", "raises"}

InitWith(hosts, envs, paths) ==
    /\ host \in hosts
    /\ environ \in envs
    /\ sysPath \in paths
    /\ mayaReady \in BOOLEAN
    /\ loaded = FALSE
    /\ exited = FALSE
    /\ exitError = FALSE
    /\ sessions = 0
    /\ atexitHooks = << >>
    /\ _NOT_INITIALIZED = TRUE
    /\ MAYA_PRODUCT_VERSION = None
    /\ MAYA_VERSION = None
    /\ MAYA_VERSION_STR = << >>
    /\ IS_UIMODE = FALSE
    /\ warning = "undefined"
    /\ OPTIONAL_MUTATOR_DICT = << >>
    /\ log = << >>
    /\ calls = 0
    /\ lastCall = [op |-> "none", exc |-> "none", ret |-> "None",
                   wasReady |-> FALSE, wasNotInit |-> TRUE]

DefaultPy == CHOOSE c \in PyConfigs : c.pyDirs = {"a", "c"}

DefaultMayaFile == CHOOSE f \in MayaFiles : f[1] = "opt"

\* the life cycle: every kind of host, every way its scripts and hooks fail
Init ==
    InitWith({HostOf(p, b, u, m, DefaultPy, DefaultMayaFile) :
                 p \in NewProfiles({2020, 2021}, 0) \cup ApiProfiles({2018}, 0)
                       \cup Profiles2017({1}) \cup BrokenProfiles,
                 b \in BOOLEAN, u \in Flavours, m \in Flavours},
             {EnvOf(<<"unset">>, <<"opt", "maya">>)},
             {<<"a", "b">>})

Spec == Init /\ [][Next]_vars

\* the environment variables: every setting of the two, two installations
InitEnv ==
    InitWith({HostOf(p, TRUE, "ok", "ok", DefaultPy, f) :
                 p \in NewProfiles({2020}, 0) \cup ApiProfiles({2018}, 0),
                 f \in MayaFiles},
             {EnvOf(a, l) : a \in AppDirs, l \in Locations},
             {<<"a">>})

SpecEnv == InitEnv /\ [][Next]_vars

\* the search path: every sys.path up to MaxPath entries, repeated entries
\* included, hosts on both sides of 2021
InitPath ==
    InitWith({HostOf(p, TRUE, "ok", "ok", py, DefaultMayaFile) :
                 p \in NewProfiles({2020, 2021, 2022}, 0) \cup ApiProfiles({2018}, 0)
                       \cup {q \in BrokenProfiles : q.version[1] = 2022},
                 py \in PyConfigs},
             {EnvOf(<<"unset">>, <<"opt", "maya">>)},
             Paths(MaxPath))

SpecPath == InitPath /\ [][Next]_vars

\* the versions: every encoding of the version a host has used
InitVersion ==
    InitWith({HostOf(p, TRUE, "ok", "ok", DefaultPy, DefaultMayaFile) :
                 p \in NewProfiles({2019, 2020, 2022}, MaxMinor)
                       \cup ApiProfiles({2018, 2019}, MaxMinor)
                       \cup Profiles2017((-1)..MaxUpdate) \cup OldProfiles},
             {EnvOf(<<"unset">>, <<"opt", "maya">>)},
             {<<"a">>})

SpecVersion == InitVersion /\ [][Next]_vars

\* ----------------------------------------------------------------- claims
\* where the step `name` stands in the log
Evs(name) == {i \in 1..Len(log) : log[i].ev = name}

Count(name) == Cardinality(Evs(name))

\* the userSetup.py runs of `by`, in order: the directories
RECURSIVE RunsFrom(_, _)
RunsFrom(i, by) ==
    IF i > Len(log) THEN << >>
    ELSE IF log[i].ev = "userSetup.py" /\ log[i].arg[2] = by
         THEN <<log[i].arg[1]>> \o RunsFrom(i + 1, by)
         ELSE RunsFrom(i + 1, by)

Runs(by) == RunsFrom(1, by)

\* the entries of a sys.path that hold a userSetup.py, in order
WithUserSetupPy(paths) == SelectSeq(paths, LAMBDA d : d \in host.pyDirs)

\* a call of `op` has just ended
JustCalled(op) == lastCall'.op = op /\ calls' = calls + 1

ConstantsUnchanged ==
    /\ MAYA_VERSION' = MAYA_VERSION
    /\ MAYA_VERSION_STR' = MAYA_VERSION_STR
    /\ MAYA_PRODUCT_VERSION' = MAYA_PRODUCT_VERSION
    /\ IS_UIMODE' = IS_UIMODE
    /\ warning' = warning

\* C1: once a call of initialize() has completed (initApiImmutables has run),
\* a later call of initialize() runs none of the steps (the log of steps is
\* unchanged) and leaves the environment variables, the cymel constants, the
\* mutator table and the flag as they were.
C1_InitializeIdempotent ==
    [][(Count("initApiImmutables") > 0 /\ JustCalled("initialize"))
          => /\ log' = log
             /\ environ' = environ
             /\ ConstantsUnchanged
             /\ OPTIONAL_MUTATOR_DICT' = OPTIONAL_MUTATOR_DICT
             /\ _NOT_INITIALIZED' = _NOT_INITIALIZED
             /\ lastCall'.exc = "none"]_vars

\* a call of initialize() made after initialization has returned
C1_Witness ==
    /\ lastCall.op = "initialize"
    /\ ~lastCall.wasNotInit
    /\ Count("initApiImmutables") = 1

\* C2: once MAYA_VERSION is a tuple, no import, initialize() or initMaya()
\* leaves it with another value.
C2_VersionImmutable ==
    [][MAYA_VERSION # None => MAYA_VERSION' = MAYA_VERSION]_vars

\* the constants have been computed a second time
C2_Witness ==
    /\ MAYA_VERSION # None
    /\ Count("initMaya.return") >= 2
    /\ lastCall.op = "initMaya"

\* C3: an initialize() that runs the steps and whose standalone session
\* starts does not raise, whatever user script or version query fails; it
\* ends initialized with MAYA_VERSION set.
C3_FailuresSwallowed ==
    (/\ lastCall.op = "initialize"
     /\ lastCall.wasNotInit
     /\ lastCall.exc # "standalone")
        => /\ lastCall.exc = "none"
           /\ ~_NOT_INITIALIZED
           /\ MAYA_VERSION # None

\* C4: initMaya() returns True exactly when Maya was not initialized as it
\* was called, and has then run _initMayaAppDir, _initMayaLocation and
\* _initMayaStandalone in that order (and none of them otherwise); the
\* constants are set when it returns; the standalone session starts once at
\* most.
C4_InitMaya ==
    /\ (lastCall.op = "initMaya" /\ lastCall.exc = "none")
          => /\ lastCall.ret = BoolStr(~lastCall.wasReady)
             /\ MAYA_VERSION # None
             /\ MAYA_VERSION_STR # << >>
             /\ MAYA_PRODUCT_VERSION # None
             /\ IS_UIMODE = ~host.batch
    /\ \A r \in Evs("initMaya.return") :
          LET b == CHOOSE i \in Evs("initMaya") :
                       i < r /\ \A j \in Evs("initMaya") : j < r => j <= i
              steps == {i \in (b + 1)..(r - 1) :
                           log[i].ev \in {"_initMayaAppDir", "_initMayaLocation",
                                          "_initMayaStandalone"}}
          IN  IF log[r].arg = <<"True">>
              THEN /\ steps = {b + 1, b + 2, b + 3}
                   /\ log[b + 1].ev = "_initMayaAppDir"
                   /\ log[b + 2].ev = "_initMayaLocation"
                   /\ log[b + 3].ev = "_initMayaStandalone"
                   /\ \E i \in (b + 4)..(r - 1) : log[i].ev = "standalone.initialize.return"
              ELSE r = b + 1
    /\ sessions <= 1
    /\ Count("standalone.initialize.return") = sessions

\* initMaya() called again after it started the session
C4_Witness ==
    /\ lastCall.op = "initMaya"
    /\ lastCall.ret = "False"
    /\ sessions = 1
    /\ \E r \in Evs("initMaya.return") : log[r].arg = <<"True">>

\* C5: the exit hook is registered right after the standalone session's
\* initialize() has returned and only on a host that has uninitialize, once
\* at most; no error leaves the hook at exit.
C5_ExitHook ==
    /\ \A i \in Evs("atexit.register") :
          /\ i > 1
          /\ log[i - 1].ev = "standalone.initialize.return"
          /\ host.hasUninitialize
    /\ Len(atexitHooks) = Count("atexit.register")
    /\ Len(atexitHooks) <= 1
    /\ ~exitError

\* the hook has run at exit, and the host's uninitialize raised
C5_Witness ==
    /\ exited
    /\ Len(atexitHooks) = 1
    /\ host.uninitializeRaises

\* initMaya() never sources userSetup.mel: it is sourced only after an
\* initMaya() has returned True
MelOnlyAfterInitMaya ==
    \A i \in Evs("source userSetup") :
        /\ i > 1
        /\ log[i - 1].ev = "initMaya.return"
        /\ log[i - 1].arg = <<"True">>

\* cymel runs the scripts of the copy of sys.path it took, in that order, on
\* a host whose major version reads 2021 or more, and none on another host
CymelRunsSnapshot ==
    /\ Count("_call_userSetup_pys") <= 1
    /\ \A i \in Evs("_call_userSetup_pys") :
          /\ host.opts /\ host.version[1] >= 2021
          /\ Runs("cymel") = WithUserSetupPy(log[i].arg)
          /\ \A j \in Evs("userSetup.py") : log[j].arg[2] = "cymel" => j > i
    /\ Count("_call_userSetup_pys") = 0 => Runs("cymel") = << >>
    /\ ~(host.opts /\ host.version[1] >= 2021) => Runs("cymel") = << >>
    /\ sessions = 1 /\ host.opts /\ host.version[1] >= 2021
          => Count("_call_userSetup_pys") = 1

\* no script is run by cymel and by the host
NotBothRun == Runs("cymel") = << >> \/ Runs("host") = << >>

\* C6 as stated: cymel runs the snapshot's scripts in order from 2021 on and
\* none before, initMaya() sources no userSetup.mel, and cymel runs no
\* userSetup.py twice.
C6_EachScriptOnce ==
    /\ CymelRunsSnapshot
    /\ NotBothRun
    /\ MelOnlyAfterInitMaya
    /\ \A i, j \in Evs("userSetup.py") :
          (log[i].arg = log[j].arg /\ log[i].arg[2] = "cymel") => i = j

\* C6 as amended: the same, a userSetup.py being run once for each
\* occurrence of its directory in the snapshot of sys.path, so twice when
\* the directory is listed twice.
C6_EachOccurrenceOnce ==
    /\ CymelRunsSnapshot
    /\ NotBothRun
    /\ MelOnlyAfterInitMaya

\* cymel has run the scripts of a sys.path that lists a directory twice, and
\* one of them extended sys.path meanwhile
C6_Witness ==
    /\ \E i \in Evs("_call_userSetup_pys") :
          /\ \E j, k \in 1..Len(log[i].arg) : j < k /\ log[i].arg[j] = log[i].arg[k]
          /\ sysPath # log[i].arg
    /\ Len(Runs("cymel")) >= 2

\* the tuple the claim gives for an api number of 2017
Documented2017(api) ==
    LET d == api - 201700
    IN  IF d < 1 THEN <<2017, 0, 0>>
        ELSE IF d < 20 THEN <<2017, 1, d - 1>>
        ELSE <<2017, ((d - 20) \div 20) + 2, (d - 20) % 20>>

\* C7: without the major/minor/patch options, a product version of 2018 or
\* more with api number YYYYnnpp gives (YYYY, nn, pp); 2017 gives the
\* documented tuple of its api number, 201720, 201740, 201760 and 201780
\* being updates 2 to 5; an older product gives its dotted version padded
\* with zeros.  MAYA_VERSION is always three non-negative integers.
C7_FallbackVersion ==
    MAYA_VERSION # None
        => /\ Len(MAYA_VERSION) = 3
           /\ \A i \in 1..3 : MAYA_VERSION[i] \in Nat
           /\ (~host.opts /\ host.version[1] >= 2018)
                 => /\ MAYA_VERSION = host.version
                    /\ host.api = MAYA_VERSION[1] * 10000 + MAYA_VERSION[2] * 100
                                      + MAYA_VERSION[3]
           /\ (~host.opts /\ host.version[1] = 2017)
                 => /\ MAYA_VERSION = Documented2017(host.api)
                    /\ \A u \in 2..5 : host.api = 201700 + 20 * (u - 1)
                                          => MAYA_VERSION = <<2017, u, 0>>
           /\ (~host.opts /\ host.version[1] < 2017)
                 => MAYA_VERSION = host.version

\* 2017 update 5 has been parsed from its api number
C7_Witness ==
    /\ host.api = 201780
    /\ ~host.opts
    /\ MAYA_VERSION = <<2017, 5, 0>>

\* what initMaya() leaves in a variable that it found unset or holding old
EnvAfter(name, keep, new) ==
    /\ name \in DOMAIN environ'
    /\ environ'[name] = IF name \in DOMAIN environ /\ keep THEN environ[name] ELSE new

\* C8: initMaya() leaves both variables alone when Maya is initialized.
\* Otherwise MAYA_APP_DIR is kept when non-empty and else set to 'maya' under
\* the user documents path, and MAYA_LOCATION is kept when it is set and
\* holds scripts/AETemplates and else set to the path four levels above the
\* directory of the maya module.  Nothing else in the environment changes.
C8_EnvironWrites ==
    [][JustCalled("initMaya")
          => IF mayaReady THEN environ' = environ
             ELSE /\ EnvAfter("MAYA_APP_DIR",
                              environ["MAYA_APP_DIR"] # << >>,
                              <<"home", "Documents", "maya">>)
                  /\ EnvAfter("MAYA_LOCATION",
                              (environ["MAYA_LOCATION"] \o <<"scripts", "AETemplates">>)
                                  \in host.dirs,
                              SubSeq(host.mayaFile, 1, Len(host.mayaFile) - 5))
                  /\ \A k \in DOMAIN environ' :
                        k \notin {"MAYA_APP_DIR", "MAYA_LOCATION"}
                            => k \in DOMAIN environ /\ environ'[k] = environ[k]]_vars

\* initMaya() has replaced an empty MAYA_APP_DIR and a MAYA_LOCATION that
\* holds no scripts/AETemplates
C8_Witness ==
    /\ lastCall.op = "initMaya"
    /\ ~lastCall.wasReady
    /\ Count("initMaya") = 1
    /\ environ["MAYA_APP_DIR"] = <<"home", "Documents", "maya">>
    /\ environ["MAYA_LOCATION"] = <<"usr", "autodesk">>

\* C9: userSetup.mel is sourced only right after an initMaya() of
\* initialize() returned True, so once at most; an initialize() that raises
\* leaves _NOT_INITIALIZED True and the next call runs the steps again;
\* _NOT_INITIALIZED is False only once initApiImmutables has completed.
C9_Retry ==
    /\ [](/\ MelOnlyAfterInitMaya
          /\ Count("source userSetup") <= 1
          /\ (lastCall.op = "initialize" /\ lastCall.exc # "none") => _NOT_INITIALIZED
          /\ ~_NOT_INITIALIZED => Count("initApiImmutables") > 0)
    /\ [][(_NOT_INITIALIZED /\ JustCalled("initialize"))
             => /\ Len(log') > Len(log)
                /\ log'[Len(log) + 1].ev = "initCymelPluginsPath"
                /\ log'[Len(log) + 2].ev = "initMaya"]_vars

\* an initialize() that raised, then one that completed and sourced
\* userSetup.mel
C9_Witness ==
    /\ lastCall.op = "initialize"
    /\ lastCall.exc = "none"
    /\ Count("initCymelPluginsPath") >= 2
    /\ Count("source userSetup") = 1
    /\ ~_NOT_INITIALIZED

\* C10: MAYA_VERSION_STR has one to three components (the loop's index + 1),
\* they are the leading components of MAYA_VERSION, the last of them is not
\* zero and every component left out is zero; split on '.' and padded with
\* zeros it is MAYA_VERSION again.
C10_VersionStr ==
    (MAYA_VERSION # None /\ MAYA_VERSION[1] > 0)
        => LET parts == PySplit(MAYA_VERSION_STR)
               k == Len(parts)
           IN  /\ k \in 1..3
               /\ \A i \in 1..k : parts[i] = PyStr(MAYA_VERSION[i])
               /\ MAYA_VERSION[k] # 0
               /\ \A i \in (k + 1)..3 : MAYA_VERSION[i] = 0
               /\ [i \in 1..3 |-> IF i <= k THEN PyInt(parts[i]) ELSE 0] = MAYA_VERSION

\* a version with a zero inside has been written out
C10_Witness ==
    /\ MAYA_VERSION = <<2018, 0, 1>>
    /\ MAYA_VERSION_STR = <<"2", "0", "1", "8", ".", "0", ".", "1">>

====
